---- MODULE Spec2Model ----
(***************************************************************************)
(* WeixinWorkflow.process() of src/services/weixin-article.workflow.ts as  *)
(* a state machine.  In a run of the pipeline every `await` of the code is *)
(* a place the run is suspended at (pc), and the action that resolves an   *)
(* awaited call runs the synchronous code that follows it, up to the next  *)
(* await; only the head of the two scrape loops is a place of its own.     *)
(* The tasks of an enrichment batch have their own states (task).          *)
(* External collaborators (scrapers, ranker, summarizer, image generator,  *)
(* publisher, clock, configuration) are inputs drawn from small sets; the  *)
(* notifier accepts every notification and its awaited calls resolve.      *)
(***************************************************************************)
EXTENDS Integers, Sequences, FiniteSets, Bags, TLC

\* ---------------------------------------------------------------- bounds
MaxF == 2          \* most FireCrawl sources in the configured list
MaxT == 1          \* most Twitter sources in the configured list
MaxScrape == 2     \* most items of an ordinary scrape result
LongFeed == 11     \* length of the long feed (more than one batch)
MaxRank == 2       \* most entries of an arbitrary (partial) rank result
MaxScore == 2      \* rank scores are drawn from 0..MaxScore
MaxN == 2          \* small ARTICLE_NUM values are 1..MaxN
MaxSummarizeFail == 1  \* most summarize calls that fail in one run
MaxRawLen == 60    \* longest plain title generateTitle returns
MaxRuns == 2       \* most calls of process() on one WeixinWorkflow object

\* ------------------------------------------------------ program constants
batchSize == 10    \* const batchSize = 10
TitleLimit == 64   \* title.slice(0, 64)
PosterLimit == 30  \* .slice(0, 30)

VARIABLES
  run,             \* how many times process() was called on this object
  focus,           \* which collaborator this run's environment varies widely
  pc,              \* where process() is suspended (which await), or its end
  outcome,         \* "running", "returned" (resolved) or "raised" (rejected)
  err,             \* message of the error caught at the top level
  scraper,         \* this.scraper: the registered scraper types
  stats,           \* this.stats
  notes,           \* bag of the notifications this run handed to this.notifier
  calls,           \* how many times this run invoked each collaborator operation
  bgWarn,          \* the un-awaited DeepSeek warning: "none", "inflight", "done"
  sourceIds,       \* sourceConfigs.AI: [firecrawl, twitter], lists of identifiers
  totalSources,    \* totalSources
  currentProgress, \* currentProgress
  stype,           \* which scrape loop is running: "FireCrawl" or "Twitter"
  idx,             \* loop index: position in the source list, or batch offset i
  scraped,         \* log of the scrape calls: source, outcome, items returned
  obj,             \* the ScrapedContent objects, by reference
  allContents,     \* allContents: sequence of references
  rankedContents,  \* rankedContents: sequence of [id, score]
  rankFailed,      \* whether rankContents threw
  articleNum,      \* value of ConfigManager.get("ARTICLE_NUM")
  topContents,     \* topContents: sequence of references
  task,            \* per reference: state of its processContent task
  templateData,    \* templateData
  titleArg,        \* the titles handed to generateTitle
  summaryTitle,    \* summaryTitle
  rawTitle,        \* the title generateTitle resolved with
  today,           \* the date string read when the headline was built
  imageReq,        \* argument of imageGenerator.generate
  renderArg,       \* argument of renderer.render
  publishArgs      \* arguments of publisher.publish

vars == <<run, focus, pc, outcome, err, scraper, stats, notes, calls, bgWarn, sourceIds,
          totalSources, currentProgress, stype, idx, scraped, obj, allContents,
          rankedContents, rankFailed, articleNum, topContents, task,
          templateData, titleArg, summaryTitle, rawTitle, today, imageReq,
          renderArg, publishArgs>>

\* ----------------------------------------------------------- small helpers
Min(a, b) == IF a < b THEN a ELSE b

Range(s) == {s[k] : k \in DOMAIN s}

\* Array.prototype.slice(from, to) with 0-based, end-exclusive indices
Slice(s, from, to) == SubSeq(s, from + 1, Min(to, Len(s)))

NoValue == "undefined"   \* a field that was never assigned

NoScore == 0 - 1         \* content.score before any rank result was merged

NoKeywords == <<"undefined">>   \* content.metadata.keywords never assigned

\* The environment of one run.  Every collaborator has a narrow family of
\* behaviours (what it does in an ordinary run) and a wide one; a run widens
\* one group of collaborators, named by focus, and keeps the others narrow:
\*   "scrape"  : balance, source lists and scrape results vary
\*   "rank"    : the rank result and ARTICLE_NUM vary
\*   "enrich"  : a long feed is scraped and summarize calls may fail
\*   "publish" : the generated title and the date vary
\* A later call of process() on the same object runs in the environment
\* "repeat", where every collaborator is narrow.
Focus == {"scrape", "rank", "enrich", "publish"}

Ops == {"scrape", "rank", "summarize", "generateTitle", "generate",
        "uploadImage", "render", "publish"}

Called(op) == [calls EXCEPT ![op] = @ + 1]

Note(level, title, about) == [level |-> level, title |-> title, about |-> about]

Sent(n) == notes (+) SetToBag({n})

Init ==
  /\ run = 1
  /\ focus \in Focus
  /\ pc = "idle"
  /\ outcome = "running"
  /\ err = NoValue
  /\ scraper = {"fireCrawl", "twitter"}
  /\ stats = [success |-> 0, failed |-> 0, contents |-> 0]
  /\ notes = EmptyBag
  /\ calls = [op \in Ops |-> 0]
  /\ bgWarn = "none"
  /\ sourceIds = [firecrawl |-> <<>>, twitter |-> <<>>]
  /\ totalSources = 0
  /\ currentProgress = 0
  /\ stype = NoValue
  /\ idx = 0
  /\ scraped = <<>>
  /\ obj = <<>>
  /\ allContents = <<>>
  /\ rankedContents = <<>>
  /\ rankFailed = FALSE
  /\ articleNum = 0
  /\ topContents = <<>>
  /\ task = <<>>
  /\ templateData = <<>>
  /\ titleArg = <<>>
  /\ summaryTitle = <<>>
  /\ rawTitle = <<>>
  /\ today = <<>>
  /\ imageReq = NoValue
  /\ renderArg = NoValue
  /\ publishArgs = NoValue

\* --------------------------------------------------------- top-level catch
\* } catch (error) { ... await this.notifier.error("工作流失败", message); throw error }
Catch(msg) ==
  /\ err' = msg
  /\ notes' = Sent(Note("error", "workflow failed", msg))
  /\ pc' = "await_fatal_notify"

\* the awaits of process(), by the call that is outstanding
Awaits == {"await_info", "await_balance", "await_sources", "await_scrape",
           "await_scrape_warn", "await_empty_notify", "await_rank",
           "await_rank_notify", "await_config", "await_batch", "await_title",
           "await_generator", "await_image", "await_upload", "await_render",
           "await_publish", "await_final_notify", "await_fatal_notify"}

\* calls whose rejection is caught where they are made (scrapeSource, the rank
\* try block, processContent)
Isolated == {"await_scrape", "await_rank", "await_batch"}

\* calls that always resolve: the notifier is best-effort, the configuration
\* and the source list are always available
Reliable == {"await_info", "await_scrape_warn", "await_empty_notify",
             "await_rank_notify", "await_final_notify", "await_fatal_notify",
             "await_sources", "await_config"}

\* the awaited calls of process() whose rejection reaches the top-level catch
Failable == Awaits \ (Isolated \cup Reliable)

CallFails ==
  /\ pc \in Failable
  /\ Catch(pc)
  /\ UNCHANGED <<run, focus, outcome, scraper, stats, calls, bgWarn, sourceIds, totalSources,
                 currentProgress, stype, idx, scraped, obj, allContents,
                 rankedContents, rankFailed, articleNum, topContents, task,
                 templateData, titleArg, summaryTitle, rawTitle, today, imageReq, renderArg,
                 publishArgs>>

\* FatalNotifyDone without the `throw error`
FatalNotifyDone_Swallow ==
  /\ pc = "await_fatal_notify"
  /\ pc' = "done"
  /\ outcome' = "returned"
  /\ UNCHANGED <<run, focus, err, scraper, stats, notes, calls, bgWarn, sourceIds,
                 totalSources, currentProgress, stype, idx, scraped, obj,
                 allContents, rankedContents, rankFailed, articleNum,
                 topContents, task, templateData, titleArg, summaryTitle,
                 rawTitle, today, imageReq, renderArg, publishArgs>>

FatalNotifyDone ==
  /\ pc = "await_fatal_notify"
  /\ pc' = "done"
  /\ outcome' = "raised"
  /\ UNCHANGED <<run, focus, err, scraper, stats, notes, calls, bgWarn, sourceIds,
                 totalSources, currentProgress, stype, idx, scraped, obj,
                 allContents, rankedContents, rankFailed, articleNum,
                 topContents, task, templateData, titleArg, summaryTitle,
                 rawTitle, today, imageReq, renderArg, publishArgs>>

\* ------------------------------------------------------------ start of run
\* await this.notifier.info("工作流开始", ...)
Start ==
  /\ pc = "idle"
  /\ notes' = Sent(Note("info", "workflow started", NoValue))
  /\ pc' = "await_info"
  /\ UNCHANGED <<run, focus, outcome, err, scraper, stats, calls, bgWarn, sourceIds,
                 totalSources, currentProgress, stype, idx, scraped, obj,
                 allContents, rankedContents, rankFailed, articleNum,
                 topContents, task, templateData, titleArg, summaryTitle,
                 rawTitle, today, imageReq, renderArg, publishArgs>>

\* const deepSeekBalance = await this.deepSeekClient.getCNYBalance()
InfoDone ==
  /\ pc = "await_info"
  /\ pc' = "await_balance"
  /\ UNCHANGED <<run, focus, outcome, err, scraper, stats, notes, calls, bgWarn, sourceIds,
                 totalSources, currentProgress, stype, idx, scraped, obj,
                 allContents, rankedContents, rankFailed, articleNum,
                 topContents, task, templateData, titleArg, summaryTitle,
                 rawTitle, today, imageReq, renderArg, publishArgs>>

\* if (deepSeekBalance < 1.0) this.notifier.warning(...)   (not awaited);
\* const sourceConfigs = await getCronSources()
BalanceDone ==
  /\ pc = "await_balance"
  /\ \E low \in (IF focus = "scrape" THEN BOOLEAN ELSE {FALSE}) :
       IF low
         THEN /\ notes' = Sent(Note("warning", "DeepSeek", "balance below 1"))
              /\ bgWarn' = "inflight"
         ELSE UNCHANGED <<notes, bgWarn>>
  /\ pc' = "await_sources"
  /\ UNCHANGED <<run, focus, outcome, err, scraper, stats, calls, sourceIds, totalSources,
                 currentProgress, stype, idx, scraped, obj, allContents,
                 rankedContents, rankFailed, articleNum, topContents, task,
                 templateData, titleArg, summaryTitle, rawTitle, today, imageReq, renderArg,
                 publishArgs>>

\* the un-awaited warning resolves whenever the notifier is done with it
BgWarnDone ==
  /\ bgWarn = "inflight"
  /\ bgWarn' = "done"
  /\ UNCHANGED <<run, focus, pc, outcome, err, scraper, stats, notes, calls, sourceIds,
                 totalSources, currentProgress, stype, idx, scraped, obj,
                 allContents, rankedContents, rankFailed, articleNum,
                 topContents, task, templateData, titleArg, summaryTitle,
                 rawTitle, today, imageReq, renderArg, publishArgs>>

\* ------------------------------------------------------------ scrape stage
SourceList(type) ==
  IF type = "FireCrawl" THEN sourceIds.firecrawl ELSE sourceIds.twitter

\* lengths of the configured source lists: any in the scrape focus, else one
\* FireCrawl source and no Twitter source
FireCrawlCounts == IF focus = "scrape" THEN 0..MaxF ELSE {1}

TwitterCounts == IF focus = "scrape" THEN 0..MaxT ELSE {0}

\* sourceIds = sourceConfigs.AI; totalSources; progress.start;
\* const fireCrawlScraper = this.scraper.get("fireCrawl"); if (!...) throw
SourcesDone ==
  /\ pc = "await_sources"
  /\ \E f \in FireCrawlCounts, t \in TwitterCounts :
       /\ sourceIds' = [firecrawl |-> [k \in 1..f |-> <<"FireCrawl", k>>],
                        twitter |-> [k \in 1..t |-> <<"Twitter", k>>]]
       /\ totalSources' = f + t
  /\ currentProgress' = 0
  /\ IF "fireCrawl" \in scraper
       THEN /\ stype' = "FireCrawl"
            /\ idx' = 1
            /\ pc' = "scrape_loop"
            /\ UNCHANGED <<err, notes>>
       ELSE /\ Catch("FireCrawlScraper not found")
            /\ UNCHANGED <<stype, idx>>
  /\ UNCHANGED <<run, focus, outcome, scraper, stats, calls, bgWarn, scraped, obj,
                 allContents, rankedContents, rankFailed, articleNum,
                 topContents, task, templateData, titleArg, summaryTitle,
                 rawTitle, today, imageReq, renderArg, publishArgs>>

\* for (const source of sourceIds.<type>) { ... await scraper.scrape(source.identifier)
ScrapeCall ==
  /\ pc = "scrape_loop"
  /\ idx <= Len(SourceList(stype))
  /\ calls' = Called("scrape")
  /\ pc' = "await_scrape"
  /\ UNCHANGED <<run, focus, outcome, err, scraper, stats, notes, bgWarn, sourceIds,
                 totalSources, currentProgress, stype, idx, scraped, obj,
                 allContents, rankedContents, rankFailed, articleNum,
                 topContents, task, templateData, titleArg, summaryTitle,
                 rawTitle, today, imageReq, renderArg, publishArgs>>

\* a ScrapedContent as a scraper returns it: the score is not set yet
NewContent(id, shape) ==
  [id |-> id,
   title |-> IF shape = "full" THEN "orig" ELSE "",
   content |-> IF shape = "full" THEN "body" ELSE "",
   keywords |-> IF shape = "full" THEN <<"kw">> ELSE NoKeywords,
   score |-> NoScore]

\* the feed of an ordinary run: complete and incomplete items alternate
Feed(n) == [k \in 1..n |-> IF k % 2 = 1 THEN "full" ELSE "bare"]

\* what one scrape call may return
ScrapeOutputs ==
  CASE focus = "scrape" -> {Feed(n) : n \in 0..MaxScrape}
    [] focus = "enrich" -> {Feed(LongFeed)}
    [] OTHER -> {Feed(MaxScrape + 1)}

\* ScrapeOk with the new items put in front of the aggregate list
ScrapeOk_Prepend ==
  /\ pc = "await_scrape"
  /\ \E out \in ScrapeOutputs :
       /\ LET base == Len(obj)
              refs == [k \in 1..Len(out) |-> base + k]
          IN /\ obj' = obj \o [k \in 1..Len(out) |-> NewContent(base + k, out[k])]
             /\ allContents' = refs \o allContents
             /\ scraped' = Append(scraped,
                    [source |-> SourceList(stype)[idx], ok |-> TRUE,
                     items |-> [k \in 1..Len(out) |-> NewContent(base + k, out[k])]])
  /\ stats' = [stats EXCEPT !.success = @ + 1]
  /\ currentProgress' = currentProgress + 1
  /\ idx' = idx + 1
  /\ pc' = "scrape_loop"
  /\ UNCHANGED <<run, focus, outcome, err, scraper, notes, calls, bgWarn, sourceIds,
                 totalSources, stype, rankedContents, rankFailed, articleNum,
                 topContents, task, templateData, titleArg, summaryTitle,
                 rawTitle, today, imageReq, renderArg, publishArgs>>

\* this.stats.success++; return contents;  allContents.push(...contents);
\* progress.update(++currentProgress)
ScrapeOk ==
  /\ pc = "await_scrape"
  /\ \E out \in ScrapeOutputs :
       /\ LET base == Len(obj)
              refs == [k \in 1..Len(out) |-> base + k]
          IN /\ obj' = obj \o [k \in 1..Len(out) |-> NewContent(base + k, out[k])]
             /\ allContents' = allContents \o refs
             /\ scraped' = Append(scraped,
                    [source |-> SourceList(stype)[idx], ok |-> TRUE,
                     items |-> [k \in 1..Len(out) |-> NewContent(base + k, out[k])]])
  /\ stats' = [stats EXCEPT !.success = @ + 1]
  /\ currentProgress' = currentProgress + 1
  /\ idx' = idx + 1
  /\ pc' = "scrape_loop"
  /\ UNCHANGED <<run, focus, outcome, err, scraper, notes, calls, bgWarn, sourceIds,
                 totalSources, stype, rankedContents, rankFailed, articleNum,
                 topContents, task, templateData, titleArg, summaryTitle,
                 rawTitle, today, imageReq, renderArg, publishArgs>>

\* catch: this.stats.failed++; await this.notifier.warning(`${type}抓取失败`, ...)
ScrapeFails ==
  /\ pc = "await_scrape"
  /\ focus = "scrape"
  /\ stats' = [stats EXCEPT !.failed = @ + 1]
  /\ notes' = Sent(Note("warning", "scrape failed", SourceList(stype)[idx]))
  /\ scraped' = Append(scraped,
                       [source |-> SourceList(stype)[idx], ok |-> FALSE, items |-> <<>>])
  /\ pc' = "await_scrape_warn"
  /\ UNCHANGED <<run, focus, outcome, err, scraper, calls, bgWarn, sourceIds, totalSources,
                 currentProgress, stype, idx, obj, allContents,
                 rankedContents, rankFailed, articleNum, topContents, task,
                 templateData, titleArg, summaryTitle, rawTitle, today, imageReq, renderArg,
                 publishArgs>>

\* return [];  allContents.push(...[]); progress.update(++currentProgress)
ScrapeWarnDone ==
  /\ pc = "await_scrape_warn"
  /\ currentProgress' = currentProgress + 1
  /\ idx' = idx + 1
  /\ pc' = "scrape_loop"
  /\ UNCHANGED <<run, focus, outcome, err, scraper, stats, notes, calls, bgWarn, sourceIds,
                 totalSources, stype, scraped, obj, allContents, rankedContents,
                 rankFailed, articleNum, topContents, task, templateData,
                 titleArg, summaryTitle, rawTitle, today, imageReq, renderArg, publishArgs>>

\* end of the FireCrawl loop:
\* const twitterScraper = this.scraper.get("twitter"); if (!...) throw
FireCrawlLoopEnd ==
  /\ pc = "scrape_loop"
  /\ stype = "FireCrawl"
  /\ idx > Len(sourceIds.firecrawl)
  /\ IF "twitter" \in scraper
       THEN /\ stype' = "Twitter"
            /\ idx' = 1
            /\ UNCHANGED <<pc, err, notes>>
       ELSE /\ Catch("TwitterScraper not found")
            /\ UNCHANGED <<stype, idx>>
  /\ UNCHANGED <<run, focus, outcome, scraper, stats, calls, bgWarn, sourceIds,
                 totalSources, currentProgress, scraped, obj, allContents,
                 rankedContents, rankFailed, articleNum, topContents, task,
                 templateData, titleArg, summaryTitle, rawTitle, today, imageReq, renderArg,
                 publishArgs>>

\* TwitterLoopEnd without the test for an empty aggregate list
TwitterLoopEnd_NoEmptyTest ==
  /\ pc = "scrape_loop"
  /\ stype = "Twitter"
  /\ idx > Len(sourceIds.twitter)
  /\ stats' = [stats EXCEPT !.contents = Len(allContents)]
  /\ calls' = Called("rank")
  /\ pc' = "await_rank"
  /\ UNCHANGED <<run, focus, outcome, err, scraper, notes, bgWarn, sourceIds,
                 totalSources, currentProgress, stype, idx, scraped, obj,
                 allContents, rankedContents, rankFailed, articleNum,
                 topContents, task, templateData, titleArg, summaryTitle,
                 rawTitle, today, imageReq, renderArg, publishArgs>>

\* end of the Twitter loop: progress.stop(); this.stats.contents = allContents.length;
\* if (this.stats.contents === 0) { await this.notifier.error(...); return }
\* else rankedContents = await this.contentRanker.rankContents(allContents)
TwitterLoopEnd ==
  /\ pc = "scrape_loop"
  /\ stype = "Twitter"
  /\ idx > Len(sourceIds.twitter)
  /\ stats' = [stats EXCEPT !.contents = Len(allContents)]
  /\ IF Len(allContents) = 0
       THEN /\ notes' = Sent(Note("error", "workflow terminated", "no content"))
            /\ pc' = "await_empty_notify"
            /\ UNCHANGED calls
       ELSE /\ calls' = Called("rank")
            /\ pc' = "await_rank"
            /\ UNCHANGED notes
  /\ UNCHANGED <<run, focus, outcome, err, scraper, bgWarn, sourceIds, totalSources,
                 currentProgress, stype, idx, scraped, obj, allContents,
                 rankedContents, rankFailed, articleNum, topContents, task,
                 templateData, titleArg, summaryTitle, rawTitle, today, imageReq, renderArg,
                 publishArgs>>

\* return;   (after the awaited error notification)
EmptyNotifyDone ==
  /\ pc = "await_empty_notify"
  /\ pc' = "done"
  /\ outcome' = "returned"
  /\ UNCHANGED <<run, focus, err, scraper, stats, notes, calls, bgWarn, sourceIds,
                 totalSources, currentProgress, stype, idx, scraped, obj,
                 allContents, rankedContents, rankFailed, articleNum,
                 topContents, task, templateData, titleArg, summaryTitle,
                 rawTitle, today, imageReq, renderArg, publishArgs>>

\* -------------------------------------------------- rank, filter, sort, top
\* the ranking of an ordinary run: every item is scored, with ties
FullRank(refs) ==
  [k \in 1..Len(refs) |-> [id |-> obj[refs[k]].id,
                           score |-> obj[refs[k]].id % (MaxScore + 1)]]

\* identifiers a rank result may name: scraped ones, and 0, which no item has
RankIds == 0..MaxScrape

RankEntries == [id : RankIds, score : 0..MaxScore]

\* what rankContents may return
RankOutputs ==
  IF focus = "rank"
    THEN UNION {[1..n -> RankEntries] : n \in 0..MaxRank}
    ELSE {FullRank(allContents)}

\* Find returning the last match instead of the first
Find_Last(ranked, id) ==
  LET hits == {k \in DOMAIN ranked : ranked[k].id = id}
  IN IF hits = {} THEN NoValue
     ELSE ranked[CHOOSE k \in hits : \A j \in hits : k >= j]

\* rankedContents.find((ranked) => ranked.id === content.id): the first match
Find(ranked, id) ==
  LET hits == {k \in DOMAIN ranked : ranked[k].id = id}
  IN IF hits = {} THEN NoValue
     ELSE ranked[CHOOSE k \in hits : \A j \in hits : k <= j]

Matched(ranked, id) == \E k \in DOMAIN ranked : ranked[k].id = id

\* allContents.filter(content => { ...; if (rankedContent) {...; return true} return false })
RECURSIVE Filter(_, _, _)
Filter(refs, heap, ranked) ==
  IF refs = <<>> THEN <<>>
  ELSE IF Matched(ranked, heap[Head(refs)].id)
         THEN <<Head(refs)>> \o Filter(Tail(refs), heap, ranked)
         ELSE Filter(Tail(refs), heap, ranked)

\* content.score = rankedContent.score, for every content that has a match
Scored(heap, refs, ranked) ==
  [r \in DOMAIN heap |->
     IF r \in Range(refs) /\ Matched(ranked, heap[r].id)
       THEN [heap[r] EXCEPT !.score = Find(ranked, heap[r].id).score]
       ELSE heap[r]]

\* Compare with the operands swapped: ascending order
Compare_Asc(a, b) ==
  IF a.score = NoScore \/ b.score = NoScore THEN 0 ELSE a.score - b.score

\* (a, b) => b.score - a.score; NaN (a score is undefined) counts as 0
Compare(a, b) ==
  IF a.score = NoScore \/ b.score = NoScore THEN 0 ELSE b.score - a.score

\* insert r behind every element that does not sort after it (stable)
RECURSIVE Insert(_, _, _)
Insert(sorted, r, heap) ==
  IF sorted = <<>> THEN <<r>>
  ELSE IF Compare(heap[Head(sorted)], heap[r]) <= 0
         THEN <<Head(sorted)>> \o Insert(Tail(sorted), r, heap)
         ELSE <<r>> \o sorted

\* allContents.sort((a, b) => b.score - a.score)
RECURSIVE Sort(_, _)
Sort(refs, heap) ==
  IF refs = <<>> THEN <<>>
  ELSE Insert(Sort(SubSeq(refs, 1, Len(refs) - 1), heap), refs[Len(refs)], heap)

\* FilterSort without the test rankedContents.length > 0
FilterSort_NoGuard(ranked) ==
  /\ obj' = Scored(obj, allContents, ranked)
  /\ allContents' = Sort(Filter(allContents, obj, ranked), Scored(obj, allContents, ranked))
  /\ pc' = "await_config"

\* if (rankedContents.length > 0) { allContents = allContents.filter(...) } else {...};
\* allContents.sort(...); then the awaited configuration read
FilterSort(ranked) ==
  LET kept == IF Len(ranked) > 0 THEN Filter(allContents, obj, ranked)
              ELSE allContents
      heap == IF Len(ranked) > 0 THEN Scored(obj, allContents, ranked) ELSE obj
  IN /\ obj' = heap
     /\ allContents' = Sort(kept, heap)
     /\ pc' = "await_config"

\* rankedContents = await this.contentRanker.rankContents(allContents)
RankOk ==
  /\ pc = "await_rank"
  /\ \E r \in RankOutputs :
       /\ rankedContents' = r
       /\ FilterSort(r)
  /\ UNCHANGED <<run, focus, outcome, err, scraper, stats, notes, calls, bgWarn,
                 sourceIds, totalSources, currentProgress, stype, idx, scraped,
                 rankFailed, articleNum, topContents, task, templateData,
                 titleArg, summaryTitle, rawTitle, today, imageReq, renderArg, publishArgs>>

\* catch (error) { ...; await this.notifier.error("内容排序失败", "请检查API额度") }
RankFails ==
  /\ pc = "await_rank"
  /\ rankFailed' = TRUE
  /\ notes' = Sent(Note("error", "rank failed", "check the API quota"))
  /\ pc' = "await_rank_notify"
  /\ UNCHANGED <<run, focus, outcome, err, scraper, stats, calls, bgWarn, sourceIds,
                 totalSources, currentProgress, stype, idx, scraped, obj,
                 allContents, rankedContents, articleNum, topContents, task,
                 templateData, titleArg, summaryTitle, rawTitle, today, imageReq, renderArg,
                 publishArgs>>

RankNotifyDone ==
  /\ pc = "await_rank_notify"
  /\ FilterSort(rankedContents)
  /\ UNCHANGED <<run, focus, outcome, err, scraper, stats, notes, calls, bgWarn,
                 sourceIds, totalSources, currentProgress, stype, idx, scraped,
                 rankedContents, rankFailed, articleNum, topContents, task,
                 templateData, titleArg, summaryTitle, rawTitle, today, imageReq, renderArg,
                 publishArgs>>

\* -------------------------------------------------------- enrichment stage
\* values ConfigManager.get("ARTICLE_NUM") may have (positive)
ArticleNums ==
  CASE focus = "rank" -> (1..MaxN) \cup {LongFeed}
    [] focus = "enrich" -> {MaxN, batchSize, LongFeed}
    [] OTHER -> {MaxN}

\* the PublishRecord of one content (templateData element)
Template(c) ==
  [id |-> c.id, title |-> c.title, content |-> c.content, keywords |-> c.keywords]

\* EnrichLoop that starts every remaining item at once
EnrichLoop_AllAtOnce(i, top, tasks) ==
  IF i < Len(top)
    THEN LET batch == Slice(top, i, Len(top))
         IN /\ task' = [r \in DOMAIN tasks |->
                          IF r \in Range(batch) THEN "summarizing" ELSE tasks[r]]
            /\ calls' = [calls EXCEPT !["summarize"] = @ + Len(batch)]
            /\ idx' = i
            /\ pc' = "await_batch"
            /\ UNCHANGED <<templateData, titleArg>>
    ELSE /\ templateData' = [k \in 1..Len(top) |-> Template(obj[top[k]])]
         /\ titleArg' = [k \in 1..Len(allContents) |-> obj[allContents[k]].title]
         /\ calls' = Called("generateTitle")
         /\ task' = tasks
         /\ idx' = i
         /\ pc' = "await_title"

\* for (let i = 0; i < topContents.length; i += batchSize): the loop test at
\* offset i.  Either the next batch starts, each of its processContent calls
\* running up to its awaited summarize call, or the loop ends and the code
\* runs on to the awaited generateTitle call.
EnrichLoop(i, top, tasks) ==
  IF i < Len(top)
    THEN LET batch == Slice(top, i, i + batchSize)
         IN /\ task' = [r \in DOMAIN tasks |->
                          IF r \in Range(batch) THEN "summarizing" ELSE tasks[r]]
            /\ calls' = [calls EXCEPT !["summarize"] = @ + Len(batch)]
            /\ idx' = i
            /\ pc' = "await_batch"
            /\ UNCHANGED <<templateData, titleArg>>
    ELSE /\ templateData' = [k \in 1..Len(top) |-> Template(obj[top[k]])]
         /\ titleArg' = [k \in 1..Len(allContents) |-> obj[allContents[k]].title]
         /\ calls' = Called("generateTitle")
         /\ task' = tasks
         /\ idx' = i
         /\ pc' = "await_title"

\* const topContents = allContents.slice(0, await ConfigManager...get("ARTICLE_NUM"))
ConfigDone ==
  /\ pc = "await_config"
  /\ \E n \in ArticleNums :
       /\ articleNum' = n
       /\ topContents' = Slice(allContents, 0, n)
       /\ EnrichLoop(0, Slice(allContents, 0, n),
                     [r \in Range(Slice(allContents, 0, n)) |-> "idle"])
  /\ UNCHANGED <<run, focus, outcome, err, scraper, stats, notes, bgWarn, sourceIds,
                 totalSources, currentProgress, stype, scraped, obj,
                 allContents, rankedContents, rankFailed, summaryTitle, rawTitle, today,
                 imageReq, renderArg, publishArgs>>

\* what summarize returns for a content
Summary(c) == [title |-> "sum", content |-> "sumbody", keywords |-> <<"sk">>]

\* content.title = summary.title; content.content = ...; keywords = ...;
\* summaryProgress.increment()
SummarizeOk(r) ==
  /\ pc = "await_batch"
  /\ task[r] = "summarizing"
  /\ obj' = [obj EXCEPT ![r] = [@ EXCEPT !.title = Summary(@).title,
                                         !.content = Summary(@).content,
                                         !.keywords = Summary(@).keywords]]
  /\ task' = [task EXCEPT ![r] = "ok"]
  /\ UNCHANGED <<run, focus, pc, outcome, err, scraper, stats, notes, calls, bgWarn,
                 sourceIds, totalSources, currentProgress, stype, idx, scraped,
                 allContents, rankedContents, rankFailed, articleNum,
                 topContents, templateData, titleArg, summaryTitle, rawTitle, today, imageReq,
                 renderArg, publishArgs>>

Failures == Cardinality({r \in DOMAIN task : task[r] \in {"warning", "fallback"}})

\* SummarizeFails that also counts the failure in this.stats
SummarizeFails_Counted(r) ==
  /\ pc = "await_batch"
  /\ task[r] = "summarizing"
  /\ focus = "enrich"
  /\ Failures < MaxSummarizeFail
  /\ stats' = [stats EXCEPT !.failed = @ + 1]
  /\ notes' = Sent(Note("warning", "content processing failed", obj[r].id))
  /\ task' = [task EXCEPT ![r] = "warning"]
  /\ UNCHANGED <<run, focus, pc, outcome, err, scraper, calls, bgWarn,
                 sourceIds, totalSources, currentProgress, stype, idx, scraped,
                 obj, allContents, rankedContents, rankFailed, articleNum,
                 topContents, templateData, titleArg, summaryTitle, rawTitle, today, imageReq,
                 renderArg, publishArgs>>

\* catch: await this.notifier.warning("内容处理失败", `ID: ${content.id}...`)
SummarizeFails(r) ==
  /\ pc = "await_batch"
  /\ task[r] = "summarizing"
  /\ focus = "enrich"
  /\ Failures < MaxSummarizeFail
  /\ notes' = Sent(Note("warning", "content processing failed", obj[r].id))
  /\ task' = [task EXCEPT ![r] = "warning"]
  /\ UNCHANGED <<run, focus, pc, outcome, err, scraper, stats, calls, bgWarn,
                 sourceIds, totalSources, currentProgress, stype, idx, scraped,
                 obj, allContents, rankedContents, rankFailed, articleNum,
                 topContents, templateData, titleArg, summaryTitle, rawTitle, today, imageReq,
                 renderArg, publishArgs>>

\* Fallback that puts the placeholders in whatever the content held
Fallback_Overwrite(c) ==
  [c EXCEPT !.title = "untitled",
            !.content = "processing failed",
            !.keywords = <<>>]

\* content.title = content.title || "无标题"; content.content = content.content ||
\* "内容处理失败"; keywords = keywords || [];  summaryProgress.increment()
Fallback(c) ==
  [c EXCEPT !.title = IF @ = "" THEN "untitled" ELSE @,
            !.content = IF @ = "" THEN "processing failed" ELSE @,
            !.keywords = IF @ = NoKeywords THEN <<>> ELSE @]

WarnDone(r) ==
  /\ pc = "await_batch"
  /\ task[r] = "warning"
  /\ obj' = [obj EXCEPT ![r] = Fallback(@)]
  /\ task' = [task EXCEPT ![r] = "fallback"]
  /\ UNCHANGED <<run, focus, pc, outcome, err, scraper, stats, notes, calls, bgWarn,
                 sourceIds, totalSources, currentProgress, stype, idx, scraped,
                 allContents, rankedContents, rankFailed, articleNum,
                 topContents, templateData, titleArg, summaryTitle, rawTitle, today, imageReq,
                 renderArg, publishArgs>>

\* BatchDone that goes on as soon as one task of the batch is over
BatchDone_Early ==
  /\ pc = "await_batch"
  /\ \E r \in Range(Slice(topContents, idx, idx + batchSize)) :
       task[r] \in {"ok", "fallback"}
  /\ EnrichLoop(idx + batchSize, topContents, task)
  /\ UNCHANGED <<run, focus, outcome, err, scraper, stats, notes, bgWarn, sourceIds,
                 totalSources, currentProgress, stype, scraped, obj,
                 allContents, rankedContents, rankFailed, articleNum,
                 topContents, summaryTitle, rawTitle, today, imageReq,
                 renderArg, publishArgs>>

\* await Promise.all(batch.map(...)) resolves: every task of the batch is over
BatchDone ==
  /\ pc = "await_batch"
  /\ \A r \in Range(Slice(topContents, idx, idx + batchSize)) :
       task[r] \in {"ok", "fallback"}
  /\ EnrichLoop(idx + batchSize, topContents, task)
  /\ UNCHANGED <<run, focus, outcome, err, scraper, stats, notes, bgWarn, sourceIds,
                 totalSources, currentProgress, stype, scraped, obj,
                 allContents, rankedContents, rankFailed, articleNum,
                 topContents, summaryTitle, rawTitle, today, imageReq, renderArg, publishArgs>>

\* ------------------------------------------------- strings, as char sequences
Sep == <<" ", "|", " ">>                  \* " | "

Label == <<" ", "A", "I", "su", "di">>   \* " AI速递", one element per UTF-16 unit

Plain(n) == [k \in 1..n |-> "a"]

\* new Date().toLocaleDateString()
Dates ==
  IF focus = "publish"
    THEN {<<"1", "/", "1", "/", "2", "0", "2", "6">>,
          <<"1", "2", "/", "2", "5", "/", "2", "0", "2", "6">>}
    ELSE {<<"1", "1", "/", "4", "/", "2", "0", "2", "6">>}

\* what generateTitle may return
RawTitles ==
  IF focus = "publish"
    THEN {Plain(n) : n \in 0..MaxRawLen}
           \cup {Plain(2) \o Sep \o Plain(3), Sep \o Plain(40),
                 <<" ">> \o Plain(35) \o <<" ">>, Plain(50) \o Sep}
    ELSE {Plain(5)}

\* whether sep occurs in s at position k (1-based)
OccursAt(s, sep, k) ==
  /\ k + Len(sep) - 1 <= Len(s)
  /\ \A j \in 1..Len(sep) : s[k + j - 1] = sep[j]

\* position of the first occurrence of sep in s, 0 if there is none
IndexOf(s, sep) ==
  LET hits == {k \in 1..Len(s) : OccursAt(s, sep, k)}
  IN IF hits = {} THEN 0 ELSE CHOOSE k \in hits : \A j \in hits : k <= j

\* s.split(sep) has an element [1]
HasSecond(s, sep) == IndexOf(s, sep) > 0

\* s.split(sep)[1], when it exists
Second(s, sep) ==
  LET rest == SubSeq(s, IndexOf(s, sep) + Len(sep), Len(s))
      stop == IndexOf(rest, sep)
  IN IF stop = 0 THEN rest ELSE SubSeq(rest, 1, stop - 1)

\* String.prototype.trim
RECURSIVE Trim(_)
Trim(s) ==
  IF s = <<>> THEN s
  ELSE IF Head(s) = " " THEN Trim(Tail(s))
  ELSE IF s[Len(s)] = " " THEN Trim(SubSeq(s, 1, Len(s) - 1))
  ELSE s

\* Headline without the cut
Headline_NoCut(date, raw) == date \o Label \o Sep \o raw

\* title = `${new Date().toLocaleDateString()} AI速递 | ${title}`; title.slice(0, 64)
Headline(date, raw) == Slice(date \o Label \o Sep \o raw, 0, TitleLimit)

\* summaryTitle.split(" | ")[1].trim().slice(0, 30)
ShortTitle(title) == Slice(Trim(Second(title, Sep)), 0, PosterLimit)

\* ------------------------------------------- headline, cover image, publish
\* TitleDone that keeps the generated title without the date prefix
TitleDone_NoPrefix ==
  /\ pc = "await_title"
  /\ \E raw \in RawTitles, date \in Dates :
       /\ rawTitle' = raw
       /\ today' = date
       /\ summaryTitle' = Slice(raw, 0, TitleLimit)
  /\ pc' = "await_generator"
  /\ UNCHANGED <<run, focus, outcome, err, scraper, stats, notes, calls, bgWarn,
                 sourceIds, totalSources, currentProgress, stype, idx, scraped,
                 obj, allContents, rankedContents, rankFailed, articleNum,
                 topContents, task, templateData, titleArg, imageReq,
                 renderArg, publishArgs>>

\* summaryTitle = await generateTitle(...).then(...);
\* await ImageGeneratorFactory.getInstance().getGenerator("ALIWANX_POSTER")
TitleDone ==
  /\ pc = "await_title"
  /\ \E raw \in RawTitles, date \in Dates :
       /\ rawTitle' = raw
       /\ today' = date
       /\ summaryTitle' = Headline(date, raw)
  /\ pc' = "await_generator"
  /\ UNCHANGED <<run, focus, outcome, err, scraper, stats, notes, calls, bgWarn,
                 sourceIds, totalSources, currentProgress, stype, idx, scraped,
                 obj, allContents, rankedContents, rankFailed, articleNum,
                 topContents, task, templateData, titleArg, imageReq,
                 renderArg, publishArgs>>

\* await imageGenerator.generate({ title: summaryTitle.split(" | ")[1]..., ... });
\* reading .trim() of a missing second segment throws a TypeError
GeneratorDone ==
  /\ pc = "await_generator"
  /\ IF HasSecond(summaryTitle, Sep)
       THEN /\ \E date \in Dates :
                 imageReq' = [title |-> ShortTitle(summaryTitle),
                              sub_title |-> date \o Label,
                              generate_num |-> 1]
            /\ calls' = Called("generate")
            /\ pc' = "await_image"
            /\ UNCHANGED <<err, notes>>
       ELSE /\ Catch("TypeError")
            /\ UNCHANGED <<imageReq, calls>>
  /\ UNCHANGED <<run, focus, outcome, scraper, stats, bgWarn, sourceIds,
                 totalSources, currentProgress, stype, idx, scraped, obj,
                 allContents, rankedContents, rankFailed, articleNum,
                 topContents, task, templateData, titleArg, summaryTitle, rawTitle, today,
                 renderArg, publishArgs>>

\* ImageDone that goes on to render without uploading the cover
ImageDone_SkipUpload ==
  /\ pc = "await_image"
  /\ calls' = Called("render")
  /\ renderArg' = templateData
  /\ pc' = "await_render"
  /\ UNCHANGED <<run, focus, outcome, err, scraper, stats, notes, bgWarn, sourceIds,
                 totalSources, currentProgress, stype, idx, scraped, obj,
                 allContents, rankedContents, rankFailed, articleNum,
                 topContents, task, templateData, titleArg, summaryTitle,
                 rawTitle, today, imageReq, publishArgs>>

\* const mediaId = await this.publisher.uploadImage(imageUrl)
ImageDone ==
  /\ pc = "await_image"
  /\ calls' = Called("uploadImage")
  /\ pc' = "await_upload"
  /\ UNCHANGED <<run, focus, outcome, err, scraper, stats, notes, bgWarn, sourceIds,
                 totalSources, currentProgress, stype, idx, scraped, obj,
                 allContents, rankedContents, rankFailed, articleNum,
                 topContents, task, templateData, titleArg, summaryTitle,
                 rawTitle, today, imageReq, renderArg, publishArgs>>

\* UploadDone that hands every surviving item to the renderer
UploadDone_RenderAll ==
  /\ pc = "await_upload"
  /\ renderArg' = [k \in 1..Len(allContents) |-> Template(obj[allContents[k]])]
  /\ calls' = Called("render")
  /\ pc' = "await_render"
  /\ UNCHANGED <<run, focus, outcome, err, scraper, stats, notes, bgWarn, sourceIds,
                 totalSources, currentProgress, stype, idx, scraped, obj,
                 allContents, rankedContents, rankFailed, articleNum,
                 topContents, task, templateData, titleArg, summaryTitle, rawTitle, today,
                 imageReq, publishArgs>>

\* const renderedTemplate = await this.renderer.render(templateData)
UploadDone ==
  /\ pc = "await_upload"
  /\ renderArg' = templateData
  /\ calls' = Called("render")
  /\ pc' = "await_render"
  /\ UNCHANGED <<run, focus, outcome, err, scraper, stats, notes, bgWarn, sourceIds,
                 totalSources, currentProgress, stype, idx, scraped, obj,
                 allContents, rankedContents, rankFailed, articleNum,
                 topContents, task, templateData, titleArg, summaryTitle, rawTitle, today,
                 imageReq, publishArgs>>

\* await this.publisher.publish(renderedTemplate, summaryTitle, summaryTitle, mediaId)
RenderDone ==
  /\ pc = "await_render"
  /\ publishArgs' = [article |-> <<"rendered", renderArg>>,
                     title |-> summaryTitle,
                     digest |-> summaryTitle,
                     mediaId |-> "media"]
  /\ calls' = Called("publish")
  /\ pc' = "await_publish"
  /\ UNCHANGED <<run, focus, outcome, err, scraper, stats, notes, bgWarn, sourceIds,
                 totalSources, currentProgress, stype, idx, scraped, obj,
                 allContents, rankedContents, rankFailed, articleNum,
                 topContents, task, templateData, titleArg, summaryTitle, rawTitle, today,
                 imageReq, renderArg>>

PublishStatuses == IF focus = "publish" THEN {"publish", "draft"} ELSE {"publish"}

\* the summary; if (this.stats.failed > 0) await notifier.warning(...) else
\* await notifier.success(...)
PublishDone ==
  /\ pc = "await_publish"
  /\ \E status \in PublishStatuses :
       LET summary == [sources |-> totalSources, success |-> stats.success,
                       failed |-> stats.failed, contents |-> stats.contents,
                       publish |-> status]
       IN IF stats.failed > 0
            THEN notes' = Sent(Note("warning", "workflow done (partial failure)", summary))
            ELSE notes' = Sent(Note("success", "workflow done", summary))
  /\ pc' = "await_final_notify"
  /\ UNCHANGED <<run, focus, outcome, err, scraper, stats, calls, bgWarn, sourceIds,
                 totalSources, currentProgress, stype, idx, scraped, obj,
                 allContents, rankedContents, rankFailed, articleNum,
                 topContents, task, templateData, titleArg, summaryTitle,
                 rawTitle, today, imageReq, renderArg, publishArgs>>

FinalNotifyDone ==
  /\ pc = "await_final_notify"
  /\ pc' = "done"
  /\ outcome' = "returned"
  /\ UNCHANGED <<run, focus, err, scraper, stats, notes, calls, bgWarn, sourceIds,
                 totalSources, currentProgress, stype, idx, scraped, obj,
                 allContents, rankedContents, rankFailed, articleNum,
                 topContents, task, templateData, titleArg, summaryTitle,
                 rawTitle, today, imageReq, renderArg, publishArgs>>

\* ------------------------------------------------------- the next run
\* process() is called again on the same object once the previous call has
\* settled: the locals of the finished call are gone, the fields this.stats
\* and this.scraper are what the previous call left (nothing resets them)
Again ==
  /\ pc = "done"
  /\ run < MaxRuns
  /\ run' = run + 1
  /\ focus' = "repeat"
  /\ pc' = "idle"
  /\ outcome' = "running"
  /\ err' = NoValue
  /\ notes' = EmptyBag
  /\ calls' = [op \in Ops |-> 0]
  /\ sourceIds' = [firecrawl |-> <<>>, twitter |-> <<>>]
  /\ totalSources' = 0
  /\ currentProgress' = 0
  /\ stype' = NoValue
  /\ idx' = 0
  /\ scraped' = <<>>
  /\ obj' = <<>>
  /\ allContents' = <<>>
  /\ rankedContents' = <<>>
  /\ rankFailed' = FALSE
  /\ articleNum' = 0
  /\ topContents' = <<>>
  /\ task' = <<>>
  /\ templateData' = <<>>
  /\ titleArg' = <<>>
  /\ summaryTitle' = <<>>
  /\ rawTitle' = <<>>
  /\ today' = <<>>
  /\ imageReq' = NoValue
  /\ renderArg' = NoValue
  /\ publishArgs' = NoValue
  /\ UNCHANGED <<scraper, stats, bgWarn>>

\* ------------------------------------------------------------ specification
Next ==
  \/ Start
  \/ InfoDone
  \/ BalanceDone
  \/ BgWarnDone
  \/ SourcesDone
  \/ ScrapeCall
  \/ ScrapeOk
  \/ ScrapeFails
  \/ ScrapeWarnDone
  \/ FireCrawlLoopEnd
  \/ TwitterLoopEnd
  \/ EmptyNotifyDone
  \/ RankOk
  \/ RankFails
  \/ RankNotifyDone
  \/ ConfigDone
  \/ \E r \in DOMAIN task : SummarizeOk(r)
  \/ \E r \in DOMAIN task : SummarizeFails(r)
  \/ \E r \in DOMAIN task : WarnDone(r)
  \/ BatchDone
  \/ TitleDone
  \/ GeneratorDone
  \/ ImageDone
  \/ UploadDone
  \/ RenderDone
  \/ PublishDone
  \/ FinalNotifyDone
  \/ CallFails
  \/ FatalNotifyDone
  \/ Again

Spec == Init /\ [][Next]_vars

\* ------------------------------------------------------ where a run stands
\* the await the run is suspended at; once the top level has caught an error,
\* the place the error came from
At == IF pc \in {"await_fatal_notify", "done"} /\ err # NoValue THEN err ELSE pc

\* places a run is at before the scrape stage has ended
BeforeScrapeEnd ==
  {"idle", "await_info", "await_balance", "await_sources", "scrape_loop",
   "await_scrape", "await_scrape_warn", "FireCrawlScraper not found",
   "TwitterScraper not found"}

ScrapeOver == At \notin BeforeScrapeEnd

\* the configured sources, in the order the code visits them
Configured == sourceIds.firecrawl \o sourceIds.twitter

\* the items the scrape calls returned, in call order
RECURSIVE Returned(_)
Returned(log) ==
  IF log = <<>> THEN <<>> ELSE Head(log).items \o Returned(Tail(log))

Thrown == {k \in DOMAIN scraped : ~scraped[k].ok}

Aggregate == [k \in 1..Len(allContents) |-> obj[allContents[k]]]

\* ------------------------------------------------------------------ claims
\* C1: once the scrape stage of a run is over, exactly one scrape call was
\* made per configured source (f + t calls, in source order), and
\* stats.success + stats.failed = f + t.
C1_ScrapeCounts ==
  ScrapeOver =>
    /\ calls["scrape"] = Len(Configured)
    /\ [k \in 1..Len(scraped) |-> scraped[k].source] = Configured
    /\ stats.success + stats.failed = Len(Configured)

C3_EmptyRunReturns ==
  (ScrapeOver /\ stats.contents = 0) =>
    /\ pc \in {"await_empty_notify", "done"}
    /\ pc = "done" => outcome = "returned"
    /\ outcome # "raised"
    /\ CopiesIn(Note("error", "workflow terminated", "no content"), notes) = 1
    /\ \A op \in Ops \ {"scrape"} : calls[op] = 0

C3_Witness ==
  /\ pc = "done"
  /\ outcome = "returned"
  /\ stats.contents = 0
  /\ stats.success = 1
  /\ stats.failed = 1

\* the run has passed the filter and the sort
PostFilter ==
  /\ ScrapeOver
  /\ stats.contents > 0
  /\ At \notin {"await_rank", "await_rank_notify"}

RankFailedNote == Note("error", "rank failed", "check the API quota")

\* places a run is at from the awaited generateTitle call on
TailPlaces ==
  {"await_title", "await_generator", "TypeError", "await_image", "await_upload",
   "await_render", "await_publish", "await_final_notify"}

\* C4: when the rank call throws, one error notification is sent, the list
\* that goes on holds exactly the scraped items in their order, all still
\* without a score, and the run goes on: it raises only for a failure of a
\* later stage, and a run that returns has enriched and published.
C4_RankFailureDegrades ==
  rankFailed =>
    /\ CopiesIn(RankFailedNote, notes) = 1
    /\ rankedContents = <<>>
    /\ [k \in 1..Len(allContents) |-> obj[allContents[k]].id]
         = [k \in 1..Len(Returned(scraped)) |-> Returned(scraped)[k].id]
    /\ \A r \in DOMAIN obj : obj[r].score = NoScore
    /\ outcome = "raised" => At \in TailPlaces
    /\ pc = "done" /\ outcome = "returned" =>
         calls["summarize"] > 0 /\ calls["publish"] = 1

C4_Witness ==
  /\ rankFailed
  /\ pc = "await_publish"
  /\ Len(allContents) = MaxScrape + 1
  /\ calls["summarize"] > 0

\* C5: when the rank result is not empty, the filtered list is the inner join
\* on the identifier: an item survives iff a rank entry names it, it carries
\* the score of the (first) entry that names it, and the list is in
\* descending order of score.
C5_InnerJoin ==
  (PostFilter /\ Len(rankedContents) > 0) =>
    /\ \A r \in DOMAIN obj :
         (r \in Range(allContents))
           <=> (\E j \in DOMAIN rankedContents : rankedContents[j].id = obj[r].id)
    /\ \A i, j \in DOMAIN allContents : i # j => allContents[i] # allContents[j]
    /\ \A r \in Range(allContents) :
         \E j \in DOMAIN rankedContents :
           /\ rankedContents[j].id = obj[r].id
           /\ rankedContents[j].score = obj[r].score
           /\ \A i \in 1..(j - 1) : rankedContents[i].id # obj[r].id
    /\ \A i, j \in DOMAIN allContents :
         i < j => obj[allContents[i]].score >= obj[allContents[j]].score

\* scraped {1, 2, 3} with the results {1: 2, 2: 1} yields [1, 2]
C5_Witness ==
  /\ PostFilter
  /\ Len(obj) = 3
  /\ rankedContents = <<[id |-> 1, score |-> 2], [id |-> 2, score |-> 1]>>
  /\ allContents = <<1, 2>>
  /\ obj[1].score = 2
  /\ obj[2].score = 1
  /\ obj[3].score = NoScore

\* the run has read ARTICLE_NUM and cut the list
Truncated == PostFilter /\ At # "await_config"

\* C6: for a positive ARTICLE_NUM N and L surviving items, the truncated
\* list has min(N, L) items, all of them surviving items, and no item left
\* out has a strictly higher score than an item kept.
C6_TopN ==
  Truncated =>
    /\ articleNum > 0
    /\ Len(topContents) = Min(articleNum, Len(allContents))
    /\ Cardinality(Range(topContents)) = Len(topContents)
    /\ Range(topContents) \subseteq Range(allContents)
    /\ \A r \in Range(topContents) :
         \A q \in Range(allContents) \ Range(topContents) :
           obj[q].score <= obj[r].score

\* three scored items and N = 2: the sort moved a later item to the front,
\* and the item left out is scored strictly lower than the two kept
C6_Witness ==
  /\ Truncated
  /\ articleNum = 2
  /\ Len(allContents) = 3
  /\ Len(topContents) = 2
  /\ topContents[1] > topContents[2]
  /\ \E q \in Range(allContents) \ Range(topContents) :
       /\ obj[q].score # NoScore
       /\ obj[q].score < obj[topContents[2]].score

\* the enrichment loop of the run is over
EnrichOver == Truncated /\ At # "await_batch"

\* the content of reference r as its scraper returned it
Original(r) == Returned(scraped)[r]

ContentFailedNote(id) == Note("warning", "content processing failed", id)

\* C7: when summarize failed for the top-N item X and for no other, then after
\* the enrichment stage X is still in the list that is rendered, its title and
\* body are the ones it had (or the placeholders where they were empty), one
\* warning naming X was sent, every other item carries its summarize result,
\* and the run has not raised because of the stage.
C7_FailureFallsBack ==
  EnrichOver =>
    \A x \in Range(topContents) :
      (task[x] = "fallback" /\ \A y \in Range(topContents) \ {x} : task[y] = "ok") =>
        /\ \E k \in DOMAIN templateData : templateData[k].id = obj[x].id
        /\ Len(templateData) = Len(topContents)
        /\ obj[x].title =
             IF Original(x).title = "" THEN "untitled" ELSE Original(x).title
        /\ obj[x].content =
             IF Original(x).content = "" THEN "processing failed"
             ELSE Original(x).content
        /\ CopiesIn(ContentFailedNote(obj[x].id), notes) = 1
        /\ \A y \in Range(topContents) \ {x} :
             /\ obj[y].title = "sum"
             /\ obj[y].content = "sumbody"
             /\ obj[y].keywords = <<"sk">>
             /\ CopiesIn(ContentFailedNote(obj[y].id), notes) = 0
        /\ outcome = "raised" => At \in TailPlaces

C7_Witness ==
  /\ EnrichOver
  /\ pc = "await_publish"
  /\ Len(topContents) = LongFeed
  /\ \E x, z \in Range(topContents) :
       /\ task[x] = "fallback"
       /\ Original(x).title = ""
       /\ obj[x].title = "untitled"
       /\ task[z] = "ok"
       /\ \A y \in Range(topContents) \ {x} : task[y] = "ok"

\* summarize calls started and not yet resolved
InFlight == {r \in DOMAIN task : task[r] = "summarizing"}

\* C8: in every reachable state at most batchSize (10) summarize calls are
\* in flight, whatever the number of top-N items and the completion order.
C8_BoundedInFlight == Cardinality(InFlight) <= batchSize

C8_Witness ==
  /\ Len(topContents) > batchSize
  /\ Cardinality(InFlight) = batchSize

\* position (from 1) of reference r in the top-N list
PosInTop(r) == CHOOSE k \in DOMAIN topContents : topContents[k] = r

\* number (from 0) of the batch of the item at position k
BatchOf(k) == (k - 1) \div batchSize

\* C9: batches are the consecutive slices of 10 items of the top-N list, and
\* there is a barrier between them: while an item of a batch has started (its
\* summarize call was made), every item of every earlier batch has finished
\* its enrichment, its failure notification included.
C9_BatchBarrier ==
  \A i, j \in DOMAIN topContents :
    (BatchOf(i) < BatchOf(j) /\ topContents[j] \in DOMAIN task
       /\ task[topContents[j]] # "idle") =>
      task[topContents[i]] \in {"ok", "fallback"}

C9_Witness ==
  /\ pc = "await_batch"
  /\ idx = batchSize
  /\ \E r \in InFlight : BatchOf(PosInTop(r)) = 1
  /\ \E r \in DOMAIN task : task[r] = "fallback" /\ BatchOf(PosInTop(r)) = 0

\* the run has built its headline
HeadlineBuilt == EnrichOver /\ At # "await_title"

\* C10: whatever title generateTitle returned, the headline is the date, the
\* label, the separator and that title, cut to 64; it is never longer than
\* 64, and publish receives it as title and as summary.
C10_HeadlineCut ==
  HeadlineBuilt =>
    /\ Len(summaryTitle) <= TitleLimit
    /\ Len(summaryTitle) = Min(TitleLimit, Len(today) + Len(Label) + Len(Sep) + Len(rawTitle))
    /\ \A k \in 1..Len(summaryTitle) :
         summaryTitle[k] = (today \o Label \o Sep \o rawTitle)[k]
    /\ calls["publish"] > 0 =>
         /\ publishArgs.title = summaryTitle
         /\ publishArgs.digest = summaryTitle

C10_Witness ==
  /\ HeadlineBuilt
  /\ calls["publish"] = 1
  /\ Len(rawTitle) = MaxRawLen
  /\ Len(summaryTitle) = TitleLimit
  /\ publishArgs.title = summaryTitle

\* how many notifications of this run carry one of the titles
Titled(titles) ==
  LET S == {n \in BagToSet(notes) : n.title \in titles}
  IN IF S = {} THEN 0 ELSE BagCardinality([n \in S |-> notes[n]])

CompletionTitles == {"workflow done", "workflow done (partial failure)"}

\* the stages from the headline on, in program order, and the await of each
TailOps == <<"generateTitle", "generate", "uploadImage", "render", "publish">>

TailAwait == <<"await_title", "await_image", "await_upload", "await_render",
               "await_publish">>

\* C11: when generateTitle, generate, uploadImage, render or publish fails,
\* exactly one "workflow failed" error notification is sent and it carries the
\* failure, the run ends raising that failure, no stage after the failing one
\* was called, and no completion notification is sent.
C11_TailFailureRaises ==
  \A k \in DOMAIN TailOps :
    (pc \in {"await_fatal_notify", "done"} /\ err = TailAwait[k]) =>
      /\ Titled({"workflow failed"}) = 1
      /\ CopiesIn(Note("error", "workflow failed", TailAwait[k]), notes) = 1
      /\ Titled(CompletionTitles) = 0
      /\ calls[TailOps[k]] = 1
      /\ \A j \in DOMAIN TailOps : j > k => calls[TailOps[j]] = 0
      /\ pc = "await_fatal_notify" => outcome = "running"
      /\ pc = "done" => outcome = "raised"

C11_Witness ==
  /\ pc = "done"
  /\ outcome = "raised"
  /\ err = "await_render"
  /\ rankFailed
  /\ calls["uploadImage"] = 1
  /\ calls["publish"] = 0

\* the publish call of this run has returned
PublishReturned ==
  \/ pc = "await_final_notify"
  \/ pc = "done" /\ outcome = "returned" /\ calls["publish"] = 1

\* C12: a run whose publish call returned sends exactly one completion
\* notification: the partial-failure warning when stats.failed > 0, the
\* success notification otherwise; and the warning is the one sent exactly
\* when a scrape call of this run failed.
C12_CompletionNote ==
  PublishReturned =>
    /\ Titled(CompletionTitles) = 1
    /\ Titled({"workflow done (partial failure)"}) = 1 <=> stats.failed > 0
    /\ Titled({"workflow done (partial failure)"}) = 1 <=> Thrown # {}

\* what the top level can have caught from the headline stage on
LateFailures ==
  {"await_title", "await_generator", "TypeError", "await_image", "await_upload",
   "await_render", "await_publish"}

ConfigErrors == {"FireCrawlScraper not found", "TwitterScraper not found"}

\* C14: process() raises only for a configuration error or for a failure of
\* a stage after the filter and sort; no failure of a call made before or
\* during the scrape, rank, filter/sort and enrichment stages makes it raise.
C14_RaisesOnlyLate ==
  outcome = "raised" => err \in ConfigErrors \cup LateFailures

\* the external calls that are outstanding: the one process() itself awaits,
\* those of the tasks of the running batch (summarize, or the warning of a
\* failed summarize), and the warning that was sent without being awaited
MainOutstanding == IF pc \in Awaits \ {"await_batch"} THEN 1 ELSE 0

BatchOutstanding ==
  Cardinality({r \in DOMAIN task : task[r] \in {"summarizing", "warning"}})

Detached == IF bgWarn = "inflight" THEN 1 ELSE 0

\* C15: in every reachable state at most one external call is outstanding,
\* unless all the outstanding calls belong to the items of one enrichment
\* batch.
C15_OneOutstanding ==
  \/ MainOutstanding + BatchOutstanding + Detached <= 1
  \/ MainOutstanding + Detached = 0 /\ pc = "await_batch"

\* the stages that call a collaborator, in program order
StageOps == <<"scrape", "rank", "summarize", "generateTitle", "generate",
              "uploadImage", "render", "publish">>

\* every call of the stage was made and has resolved or was isolated (the
\* notification of an isolated failure included)
Finished(op) ==
  CASE op = "scrape" ->
         /\ ScrapeOver
         /\ calls["scrape"] = Len(Configured)
         /\ Len(scraped) = Len(Configured)
    [] op = "rank" ->
         /\ calls["rank"] = 1
         /\ pc \notin {"await_rank", "await_rank_notify"}
    [] op = "summarize" ->
         /\ EnrichOver
         /\ calls["summarize"] = Len(topContents)
         /\ \A r \in DOMAIN task : task[r] \in {"ok", "fallback"}
    [] op = "generateTitle" -> calls[op] = 1 /\ pc # "await_title"
    [] op = "generate" -> calls[op] = 1 /\ pc # "await_image"
    [] op = "uploadImage" -> calls[op] = 1 /\ pc # "await_upload"
    [] op = "render" -> calls[op] = 1 /\ pc # "await_render"
    [] op = "publish" -> calls[op] = 1 /\ pc # "await_publish" /\ err = NoValue

C17_StatsFrame == [][ScrapeOver => stats' = stats]_vars

C17_Witness ==
  /\ ScrapeOver
  /\ pc = "done"
  /\ outcome = "returned"
  /\ \E r \in DOMAIN task : task[r] = "fallback"
  /\ stats = [success |-> 1, failed |-> 0, contents |-> LongFeed]

\* what the item of reference r holds once its own processContent is over
Enriched(r) ==
  IF task[r] = "ok"
    THEN [Original(r) EXCEPT !.title = Summary(@).title,
                             !.content = Summary(@).content,
                             !.keywords = Summary(@).keywords]
    ELSE Fallback(Original(r))

\* C18: the document handed to render has one record per item of the
\* truncated top-N list and no other, in the order of that list (highest
\* score first), each with the title, body and keywords the item holds once
\* its own enrichment is over, whatever the order the tasks completed in.
C18_RenderedDocument ==
  calls["render"] > 0 =>
    /\ topContents = Slice(allContents, 0, articleNum)
    /\ Len(renderArg) = Len(topContents)
    /\ \A k \in DOMAIN topContents :
         /\ task[topContents[k]] \in {"ok", "fallback"}
         /\ renderArg[k] = Template(Enriched(topContents[k]))
    /\ \A i, j \in DOMAIN topContents :
         i < j => obj[topContents[i]].score >= obj[topContents[j]].score

C18_Witness ==
  /\ calls["render"] = 1
  /\ Len(allContents) = LongFeed
  /\ Len(renderArg) = batchSize
  /\ \E k \in DOMAIN renderArg : renderArg[k].title = "untitled"
  /\ \E k \in DOMAIN renderArg : renderArg[k].title = "sum"
  /\ renderArg[1].id # 1

\* C19: for a positive ARTICLE_NUM, a run that reaches the headline, cover and
\* publish stages has a non-empty surviving list, and the list handed to
\* render (and then published) is never empty.
C19_NeverPublishesEmpty ==
  /\ (calls["generateTitle"] > 0 /\ articleNum > 0) =>
       Len(allContents) > 0 /\ Len(topContents) > 0
  /\ (calls["render"] > 0 /\ articleNum > 0) => Len(renderArg) > 0

\* C20: whatever string generateTitle returned (empty, without " | ", or
\* long), the headline still contains " | ", so reading its second segment
\* never throws, and the short title handed to the image generator is that
\* segment trimmed and cut: a string of at most 30 characters.
C20_ShortTitleDefined ==
  HeadlineBuilt =>
    /\ HasSecond(summaryTitle, Sep)
    /\ err # "TypeError"
    /\ calls["generate"] > 0 =>
         /\ imageReq.title = ShortTitle(summaryTitle)
         /\ Len(imageReq.title) <= PosterLimit
         /\ Len(imageReq.title) = Min(PosterLimit, Len(Trim(Second(summaryTitle, Sep))))

C20_Witness ==
  /\ pc = "await_image"
  /\ calls["generate"] = 1
  /\ rawTitle = <<>>
  /\ HasSecond(summaryTitle, Sep)
  /\ imageReq.title = <<>>

====
